---- MODULE Spec2Model ----
(***************************************************************************)
(* Sky-background generation (photomitrus/sky/gen_sky.py) and the per-chip *)
(* process fan-out (photomitrus/multi_master.py) of prime-photometry.      *)
(*                                                                         *)
(* Samples are exact rationals <<num, den>> with den > 0 in lowest terms;  *)
(* the missing sentinel (numpy's NaN) is <<0, 0>>.  An image is a          *)
(* row-major sequence of Height * Width samples.                           *)
(***************************************************************************)
EXTENDS Integers, Sequences, FiniteSets, TLC

\* ------------------------------------------------------------- bounds
Height == 2
Width == 2
MaxVal == 2
MaxSkyFiles == 2
MaxSeq == 2
MaxChips == 3
MaxFiles == 12
MaxGroupSize == 13

\* --------------------------------------------------- program constants
MaxIters == 5
MedianFilterSize == 50
MeanFilterSize == 30
DefaultNanThresh == 3
DefaultFlatNanThresh == 0

NPix == Height * Width
Pix == 1..NPix

\* ---------------------------------------------------------- arithmetic
NaN == <<0, 0>>
IsNaN(x) == x[2] = 0

Abs(n) == IF n < 0 THEN -n ELSE n

RECURSIVE GCD(_, _)
GCD(a, b) == IF b = 0 THEN a ELSE GCD(b, a % b)

\* n/d in lowest terms with a positive denominator (d # 0)
Rat(n, d) ==
    LET g == GCD(Abs(n), Abs(d))
        s == IF d < 0 THEN -1 ELSE 1
    IN  <<(s * n) \div g, (s * d) \div g>>

Whole(n) == <<n, 1>>

RAdd(x, y) == IF IsNaN(x) \/ IsNaN(y) THEN NaN
              ELSE Rat(x[1] * y[2] + y[1] * x[2], x[2] * y[2])
RSub(x, y) == IF IsNaN(x) \/ IsNaN(y) THEN NaN
              ELSE Rat(x[1] * y[2] - y[1] * x[2], x[2] * y[2])
RMul(x, y) == IF IsNaN(x) \/ IsNaN(y) THEN NaN
              ELSE Rat(x[1] * y[1], x[2] * y[2])
\* x / y on finite samples; the inputs of the model keep y nonzero
\* (detector counts are positive), 0/0 is NaN as in IEEE arithmetic
RDiv(x, y) == IF IsNaN(x) \/ IsNaN(y) \/ y[1] = 0 THEN NaN
              ELSE Rat(x[1] * y[2], x[2] * y[1])
\* comparisons are FALSE when either side is NaN
RLess(x, y) == ~IsNaN(x) /\ ~IsNaN(y) /\ x[1] * y[2] < y[1] * x[2]
RLeq(x, y) == ~IsNaN(x) /\ ~IsNaN(y) /\ x[1] * y[2] <= y[1] * x[2]

RECURSIVE RSum(_)
RSum(s) == IF s = <<>> THEN Whole(0) ELSE RAdd(Head(s), RSum(Tail(s)))

RECURSIVE Insert(_, _)
Insert(x, s) == IF s = <<>> THEN <<x>>
                ELSE IF RLeq(x, Head(s)) THEN <<x>> \o s
                ELSE <<Head(s)>> \o Insert(x, Tail(s))

RECURSIVE SortSamples(_)
SortSamples(s) == IF s = <<>> THEN <<>> ELSE Insert(Head(s), SortSamples(Tail(s)))

Finite(s) == SelectSeq(s, LAMBDA x : ~IsNaN(x))

\* middle element, or the mean of the two middle elements, of the sorted
\* finite samples; NaN when there is none
MedianOfFinite(s) ==
    LET t == SortSamples(s)
        n == Len(t)
    IN  IF n = 0 THEN NaN
        ELSE IF n % 2 = 1 THEN t[(n + 1) \div 2]
        ELSE RDiv(RAdd(t[n \div 2], t[n \div 2 + 1]), Whole(2))

\* np.median in place of np.nanmedian: one NaN makes the result NaN
NanMedianPropagating(s) ==
    IF \E k \in 1..Len(s) : IsNaN(s[k]) THEN NaN ELSE MedianOfFinite(s)

\* np.nanmedian over a flat collection of samples
NanMedian(s) == MedianOfFinite(Finite(s))

\* np.nanmedian(list_of_images, axis=0)
NanMedianAxis0(imgs) ==
    [p \in Pix |-> NanMedian([k \in 1..Len(imgs) |-> imgs[k][p]])]

CountNaN(img) == Cardinality({p \in Pix : IsNaN(img[p])})

\* 100 * count_nonzero(isnan(image)) / (shape[0] * shape[1])
NanPercent(img) == Rat(100 * CountNaN(img), NPix)

\* img / np.nanmedian(img)
Normalize(img) == LET m == NanMedian(img) IN [p \in Pix |-> RDiv(img[p], m)]

\* ------------------------------------------------------- sigma clipping
Mean(s) == RDiv(RSum(s), Whole(Len(s)))
Variance(s) ==
    LET mu == Mean(s)
    IN  Mean([k \in 1..Len(s) |-> RMul(RSub(s[k], mu), RSub(s[k], mu))])

\* cen - sigma*std <= x <= cen + sigma*std, compared on squares
WithinBounds(x, cen, var, sigma) ==
    /\ ~IsNaN(x) /\ ~IsNaN(cen) /\ ~IsNaN(var)
    /\ RLeq(RMul(RSub(x, cen), RSub(x, cen)), RMul(Whole(sigma * sigma), var))

\* astropy.stats.sigma_clip: the loop over the surviving samples, at most
\* iters rounds, stopping when a round rejects nothing; returns the centre
\* and variance of the last round
RECURSIVE ClipBounds(_, _, _)
ClipBounds(s, sigma, iters) ==
    LET cen == IF s = <<>> THEN NaN ELSE MedianOfFinite(s)
        var == IF s = <<>> THEN NaN ELSE Variance(s)
        kept == SelectSeq(s, LAMBDA x : WithinBounds(x, cen, var, sigma))
    IN  IF iters = 1 \/ Len(kept) = Len(s) THEN <<cen, var>>
        ELSE ClipBounds(kept, sigma, iters - 1)

\* the mask of sigma_clip(data, sigma, maxiters=5): invalid samples and the
\* samples outside the final bounds
ClipMask(data, sigma) ==
    LET b == ClipBounds(Finite(data), sigma, MaxIters)
    IN  {p \in Pix : IsNaN(data[p])
                     \/ (~IsNaN(b[1]) /\ ~WithinBounds(data[p], b[1], b[2], sigma))}

\* returns the clipped image - sky instead of the image
SigmaClippedSubtracted(image, sigma, skyref) ==
    IF sigma = <<>> THEN image
    ELSE LET data == [p \in Pix |-> RSub(image[p], skyref)]
             mask == ClipMask(data, sigma[1])
         IN  [p \in Pix |-> IF p \in mask THEN NaN ELSE data[p]]

\* sigma_clipped(image, sigma, sky): sigma is <<>> for None, <<s>> otherwise
sigma_clipped(image, sigma, skyref) ==
    IF sigma = <<>> THEN image
    ELSE LET mask == ClipMask([p \in Pix |-> RSub(image[p], skyref)], sigma[1])
         IN  [p \in Pix |-> IF p \in mask THEN NaN ELSE image[p]]

\* ------------------------------------------------------ neighbourhoods
Row(p) == (p - 1) \div Width + 1
Col(p) == ((p - 1) % Width) + 1

\* scipy.ndimage boundary mode 'reflect' (d c b a | a b c d | d c b a):
\* the 1-based source index of the 1-based position i on an axis of length n
Reflect(i, n) ==
    LET m == (i - 1) % (2 * n)
    IN  IF m < n THEN m + 1 ELSE 2 * n - m

\* offsets of a window of the given size around its centre
WindowOffsets(size) == (0 - size \div 2)..(size - size \div 2 - 1)

\* how often source index s occurs in the reflected window centred on c
ReflectCount(c, s, n, size) ==
    Cardinality({o \in WindowOffsets(size) : Reflect(c + o, n) = s})

\* multiplicity of source pixel q in the size x size window centred on p
WindowWeight(p, q, size) ==
    ReflectCount(Row(p), Row(q), Height, size) * ReflectCount(Col(p), Col(q), Width, size)

\* the window weights of the median filter of median_filter_masking
MedianWeights == [p \in Pix |-> [q \in Pix |-> WindowWeight(p, q, MedianFilterSize)]]

\* the samples a window with weights w draws from
WindowValues(image, w) == {image[q] : q \in {q \in Pix : w[q] > 0}}

\* number of window samples (with multiplicity) that are <= v
RankBelow(image, w, v) ==
    LET RECURSIVE Total(_)
        Total(k) == IF k = 0 THEN 0
                    ELSE (IF RLeq(image[k], v) THEN w[k] ELSE 0) + Total(k - 1)
    IN  Total(NPix)

\* ndimage.median_filter(image, size) at one pixel, from the window's
\* weights w: the sample of rank (size*size) \div 2 of the sorted window.
\* The filter orders raw values, so with a NaN in the window the ordering is
\* not defined and any window sample may come out.
MedianFilterAt(image, w, size) ==
    LET vals == WindowValues(image, w)
        rank == (size * size) \div 2
        above == {v \in vals : RankBelow(image, w, v) > rank}
    IN  IF \E v \in vals : IsNaN(v) THEN vals
        ELSE {v \in above : \A u \in above : RLeq(v, u)}

\* ndimage.uniform_filter(image, size, mode='constant'): the sum of the
\* samples inside the window (zero outside the image) over size*size
UniformFilterAt(image, p, size) ==
    LET inwin == {q \in Pix : /\ (Row(q) - Row(p)) \in WindowOffsets(size)
                              /\ (Col(q) - Col(p)) \in WindowOffsets(size)}
        RECURSIVE Total(_)
        Total(k) == IF k = 0 THEN Whole(0)
                    ELSE RAdd(IF k \in inwin THEN image[k] ELSE Whole(0), Total(k - 1))
    IN  RDiv(Total(NPix), Whole(size * size))

\* image[:] = filtered: every position is overwritten
FillMissingAll(image, filtered) == filtered

\* image[np.isnan(image)] = filtered[np.isnan(image)]
FillMissing(image, filtered) ==
    [p \in Pix |-> IF IsNaN(image[p]) THEN filtered[p] ELSE image[p]]

\* the images that agree with image on its first k pixels' valid samples and
\* hold, at each missing one, a value the median filter may produce there
RECURSIVE MedianFilled(_, _)
MedianFilled(image, k) ==
    IF k = 0 THEN {<<>>}
    ELSE LET here == IF IsNaN(image[k])
                     THEN MedianFilterAt(image, MedianWeights[k], MedianFilterSize)
                     ELSE {image[k]}
         IN  {Append(f, v) : f \in MedianFilled(image, k - 1), v \in here}

\* median_filter_masking(image, size=50): the set of images it may return
median_filter_masking(image) == MedianFilled(image, NPix)

\* line 43: footprint = disk(size), the offsets within size of the centre;
\* q lies under the footprint centred on p
InDisk(p, q, size) ==
    (Row(q) - Row(p)) * (Row(q) - Row(p)) + (Col(q) - Col(p)) * (Col(q) - Col(p))
        <= size * size

\* filter_image = image.copy(), nothing seeded
Unseeded(image) == image

\* filter_image of mean_filter_masking: missing samples seeded with nanmedian
SeededImage(image) ==
    LET m == NanMedian(image)
    IN  [p \in Pix |-> IF IsNaN(image[p]) THEN m ELSE image[p]]

\* mean_filter_masking(image, size=30)
mean_filter_masking(image) ==
    LET filter_image == SeededImage(image)
        mean_filter_image == [p \in Pix |-> UniformFilterAt(filter_image, p, MeanFilterSize)]
    IN  FillMissing(image, mean_filter_image)

\* no final cleanup
FinalCleanupSkipped(image) == image

\* sky[np.isnan(sky)] = np.nanmedian(sky)
FinalCleanup(image) ==
    LET median == NanMedian(image)
    IN  [p \in Pix |-> IF IsNaN(image[p]) THEN median ELSE image[p]]

\* ------------------------------------------------------- file names
Digits == <<"0", "1", "2", "3", "4", "5", "6", "7", "8", "9">>

RECURSIVE Pow10(_)
Pow10(k) == IF k = 0 THEN 1 ELSE 10 * Pow10(k - 1)

\* the 8-digit sequence id of an exposure
SeqId(n) == [k \in 1..8 |-> Digits[((n \div Pow10(8 - k)) % 10) + 1]]

RampNew == <<".", "r", "a", "m", "p", ".", "n", "e", "w">>
FlatFits == <<".", "f", "l", "a", "t", ".", "f", "i", "t", "s">>
RawFits == <<".", "f", "i", "t", "s">>

FileName(n, chip, suffix) == SeqId(n) \o <<"C", chip>> \o suffix

\* code points of the characters that occur in paths
OrdTable ==
    [c \in {Digits[k] : k \in 1..10} |-> 47 + (CHOOSE k \in 1..10 : Digits[k] = c)]
        @@ ("." :> 46) @@ ("/" :> 47) @@ ("C" :> 67) @@ ("a" :> 97) @@ ("d" :> 100)
        @@ ("e" :> 101) @@ ("f" :> 102) @@ ("i" :> 105) @@ ("l" :> 108)
        @@ ("m" :> 109) @@ ("n" :> 110) @@ ("p" :> 112) @@ ("r" :> 114)
        @@ ("s" :> 115) @@ ("t" :> 116) @@ ("w" :> 119)

\* ord(c)
Ord(c) == OrdTable[c]

\* Python's str ordering: by code point, a proper prefix first
RECURSIVE StrLeq(_, _)
StrLeq(a, b) ==
    IF a = <<>> THEN TRUE
    ELSE IF b = <<>> THEN FALSE
    ELSE IF Head(a) = Head(b) THEN StrLeq(Tail(a), Tail(b))
    ELSE Ord(Head(a)) < Ord(Head(b))

\* str.endswith
EndsWith(str, suffix) ==
    /\ Len(str) >= Len(suffix)
    /\ SubSeq(str, Len(str) - Len(suffix) + 1, Len(str)) = suffix

\* os.path.join(directory, f)
PathJoin(directory, f) ==
    IF directory = <<>> \/ directory[Len(directory)] = "/" THEN directory \o f
    ELSE directory \o <<"/">> \o f

Max(a, b) == IF a > b THEN a ELSE b
Min(a, b) == IF a < b THEN a ELSE b

\* str[a:b] with negative a and b
PySlice(str, a, b) == SubSeq(str, Max(Len(str) + a, 0) + 1, Max(Len(str) + b, 0))

\* whether str[k] with negative k is inside the string
PyIndexOk(str, k) == Len(str) + k >= 0
\* str[k] with negative k
PyIndex(str, k) == str[Len(str) + k + 1]

\* the list is left in listing order
SortPathsNone(s) == s

RECURSIVE InsertPath(_, _)
InsertPath(x, s) == IF s = <<>> THEN <<x>>
                    ELSE IF StrLeq(x, Head(s)) THEN <<x>> \o s
                    ELSE <<Head(s)>> \o InsertPath(x, Tail(s))

\* list.sort() on a list of paths
RECURSIVE SortPaths(_)
SortPaths(s) == IF s = <<>> THEN <<>> ELSE InsertPath(Head(s), SortPaths(Tail(s)))

\* every name ending in '.fits' is taken as well
MatchingPathsAnyFits(directory, listing) ==
    LET keep == SelectSeq(listing, LAMBDA f : \/ EndsWith(f, RampNew)
                                              \/ EndsWith(f, FlatFits)
                                              \/ EndsWith(f, RawFits))
    IN  [k \in 1..Len(keep) |-> PathJoin(directory, keep[k])]

\* the list comprehension of lines 63-64: joined paths of the matching
\* entries, in listing order
MatchingPaths(directory, listing) ==
    LET keep == SelectSeq(listing, LAMBDA f : EndsWith(f, RampNew) \/ EndsWith(f, FlatFits))
    IN  [k \in 1..Len(keep) |-> PathJoin(directory, keep[k])]

Unknown == <<"u", "n", "k", "n", "o", "w", "n">>

\* header.get(key, 'unknown') on an optional header card
HeaderGet(card) == IF card = <<>> THEN Unknown ELSE card[1]

\* 'sky.{}-{}.{}-{}.C{}.fits'.format(filter1, filter2, first, last, chip)
FormatSaveName(filter1, filter2, first, last, chip) ==
    <<"s", "k", "y", ".">> \o filter1 \o <<"-">> \o filter2 \o <<".">> \o first
        \o <<"-">> \o last \o <<".", "C", chip, ".", "f", "i", "t", "s">>

\* offsets of the sequence id and of the chip character in a path:
\* lines 73-74 (gen_sky_image) and 112-113, 153-154 (the flat entry points)
SeqFrom(entry) == IF entry = "gen_sky_image" THEN -19 ELSE -20
SeqTo(entry) == IF entry = "gen_sky_image" THEN -11 ELSE -12
ChipAt(entry) == IF entry = "gen_sky_image" THEN -10 ELSE -11

\* ------------------------------------------------------ stored images
Flat(b) == [p \in Pix |-> Whole(b)]
Ramp(b) == [p \in Pix |-> Whole(b + p - 1)]
Spike == [p \in Pix |-> IF p = NPix THEN Whole(1 + 4 * MaxVal) ELSE Whole(1)]
Masked(img, M) == [p \in Pix |-> IF p \in M THEN NaN ELSE img[p]]
RowPixels(r) == {p \in Pix : Row(p) = r}

\* the images fits.getdata may return: positive detector counts, some with
\* missing samples (one pixel, one full row, everything)
ImageCatalog ==
    {Flat(1), Spike, Masked(Flat(1), {1}), Masked(Flat(1), Pix)}
        \cup {Ramp(b) : b \in 1..MaxVal}
        \cup {Masked(Ramp(1), RowPixels(r)) : r \in 1..Height}

Pool(st) == IF st = "catalog" THEN ImageCatalog ELSE {Masked(Ramp(1), {1})}

\* header cards of a stored image: FILTER1 / FILTER2, each present or absent
HeaderSet ==
    {[FILTER1 |-> << <<"O", "p", "e", "n">> >>, FILTER2 |-> << <<"J">> >>],
     [FILTER1 |-> <<>>, FILTER2 |-> << <<"H">> >>]}

Entries == {"gen_sky_image", "gen_flat_sky_image", "gen_mean_flat_sky_image"}
SourceDir == <<"d">>
OutputDir == <<"o", "/">>

\* ------------------------------------------------------------- state
VARIABLES
    pc,              \* position in the entry point, "error" after an exception
    entry,           \* which entry point runs
    store,           \* which images the image store holds
    listing,         \* os.listdir(science_data_directory), in its order
    arg_group_size,  \* the sky_group_size argument: <<>> is None
    sigma,           \* the sigma argument: <<>> is None
    nan_thresh,      \* the nan_thresh argument
    image_fnames, nfiles, sky_group_size, header, save_name,
    ngroups, median_array, file_counter, i, images, sky,
    groups,          \* history: group_files of every iteration
    loaded,          \* history: paths passed to fits.getdata, in order
    sky_in,          \* history: the sky as aggregated (line 92)
    sky_repaired,    \* history: the sky on entry to the final cleanup
    repairs,         \* history: the repair strategies invoked
    written,         \* history: files written by writeto
    error,           \* the exception that ended the run, "" if none
    log,             \* history: the stages entered, in order
    side_files,      \* history: files written by plt.imsave
    ppc, which, chips, commands, procs, waited,
    cpc, c_image, c_sigma, c_sky, c_out,
    kpc, k_nfiles, k_size, k_ngroups, k_adjusted,
    mpc,             \* position in multi_master
    m_chip,          \* the chip argument: <<>> is None
    m_no_download, m_astromnet, m_no_shift,
    m_dirs,          \* the state of parentdir/C1/ .. parentdir/C4/
    m_chips, m_next,
    m_download,      \* history: how datadownload ended, "" if not called
    m_calls,         \* history: the per-chip functions called, in order
    m_error          \* the exception that ended multi_master, "" if none

skyvars == <<pc, entry, store, listing, arg_group_size, sigma, nan_thresh,
             image_fnames, nfiles, sky_group_size, header, save_name, ngroups,
             median_array, file_counter, i, images, sky, groups, loaded,
             sky_in, sky_repaired, repairs, written, error, log, side_files>>
parvars == <<ppc, which, chips, commands, procs, waited>>
clipvars == <<cpc, c_image, c_sigma, c_sky, c_out>>
cntvars == <<kpc, k_nfiles, k_size, k_ngroups, k_adjusted>>
mmvars == <<mpc, m_chip, m_no_download, m_astromnet, m_no_shift, m_dirs, m_chips,
            m_next, m_download, m_calls, m_error>>
vars == <<skyvars, parvars, clipvars, cntvars, mmvars>>

NoHeader == [src |-> <<>>, FILTER1 |-> <<>>, FILTER2 |-> <<>>]

SkyIdle ==
    /\ pc = "idle" /\ entry = "gen_sky_image" /\ store = "single"
    /\ listing = <<>> /\ arg_group_size = <<>> /\ sigma = <<>> /\ nan_thresh = 0
    /\ image_fnames = <<>> /\ nfiles = 0 /\ sky_group_size = <<>>
    /\ header = NoHeader /\ save_name = <<>> /\ ngroups = 0
    /\ median_array = <<>> /\ file_counter = 0 /\ i = 0 /\ images = <<>>
    /\ sky = <<>> /\ groups = <<>> /\ loaded = <<>> /\ sky_in = <<>>
    /\ sky_repaired = <<>> /\ repairs = <<>> /\ written = <<>> /\ error = ""
    /\ log = <<>> /\ side_files = <<>>

ParIdle ==
    /\ ppc = "idle" /\ which = "refineprocessparallel" /\ chips = <<>>
    /\ commands = <<>> /\ procs = <<>> /\ waited = 0

ClipIdle ==
    /\ cpc = "idle" /\ c_image = <<>> /\ c_sigma = <<>> /\ c_sky = Whole(0)
    /\ c_out = <<>>

CntIdle ==
    /\ kpc = "idle" /\ k_nfiles = 0 /\ k_size = 1 /\ k_ngroups = 0
    /\ k_adjusted = FALSE

MMIdle ==
    /\ mpc = "idle" /\ m_chip = <<>> /\ m_no_download = FALSE
    /\ m_astromnet = FALSE /\ m_no_shift = FALSE /\ m_dirs = <<>>
    /\ m_chips = <<>> /\ m_next = 1 /\ m_download = "" /\ m_calls = <<>>
    /\ m_error = ""

\* the state at the call of an entry point
SkyStart(st, ls, gs, sg, nt) ==
    /\ pc = "start" /\ entry \in Entries /\ store = st
    /\ listing \in ls /\ arg_group_size \in gs /\ sigma \in sg
    /\ nan_thresh \in (IF entry = "gen_mean_flat_sky_image" THEN {0} ELSE nt)
    /\ image_fnames = <<>> /\ nfiles = 0 /\ sky_group_size = <<>>
    /\ header = NoHeader /\ save_name = <<>> /\ ngroups = 0
    /\ median_array = <<>> /\ file_counter = 0 /\ i = 0 /\ images = <<>>
    /\ sky = <<>> /\ groups = <<>> /\ loaded = <<>> /\ sky_in = <<>>
    /\ sky_repaired = <<>> /\ repairs = <<>> /\ written = <<>> /\ error = ""
    /\ log = <<>> /\ side_files = <<>>

\* ------------------------------------------------- sky entry points
inputs == <<entry, store, listing, arg_group_size, sigma, nan_thresh>>

Raise(exc) == pc' = "error" /\ error' = exc

\* lines 63-68: select the matching files, default the group size, sort
SelectFiles ==
    /\ pc = "start"
    /\ LET names == MatchingPaths(SourceDir, listing)
       IN  /\ nfiles' = Len(names)
           /\ sky_group_size' = IF arg_group_size = <<>> THEN <<Len(names)>>
                                ELSE arg_group_size
           /\ image_fnames' = SortPaths(names)
    /\ pc' = "selected"
    /\ UNCHANGED <<inputs, header, save_name, ngroups, median_array, file_counter,
                   i, images, sky, groups, loaded, sky_in, sky_repaired, repairs,
                   written, error>>
    /\ log' = Append(log, "select")
    /\ side_files' = side_files
    /\ UNCHANGED <<parvars, clipvars, cntvars, mmvars>>

\* lines 69-76: the header of the last file and the output name;
\* image_fnames[-1] of an empty list raises IndexError
ReadHeader ==
    /\ pc = "selected"
    /\ IF /\ nfiles > 0
          /\ PyIndexOk(image_fnames[1], ChipAt(entry))
       THEN \E h \in HeaderSet :
              /\ header' = [src |-> image_fnames[nfiles],
                            FILTER1 |-> h.FILTER1, FILTER2 |-> h.FILTER2]
              /\ save_name' = FormatSaveName(
                     HeaderGet(h.FILTER1), HeaderGet(h.FILTER2),
                     PySlice(image_fnames[1], SeqFrom(entry), SeqTo(entry)),
                     PySlice(image_fnames[nfiles], SeqFrom(entry), SeqTo(entry)),
                     PyIndex(image_fnames[1], ChipAt(entry)))
              /\ pc' = "named"
              /\ error' = error
       ELSE /\ Raise("IndexError")
            /\ UNCHANGED <<header, save_name>>
    /\ UNCHANGED <<inputs, image_fnames, nfiles, sky_group_size, ngroups,
                   median_array, file_counter, i, images, sky, groups, loaded,
                   sky_in, sky_repaired, repairs, written>>
    /\ log' = Append(log, "header")
    /\ side_files' = side_files
    /\ UNCHANGED <<parvars, clipvars, cntvars, mmvars>>

\* one group too many
GroupCountExtra(n, g) == n \div g + 1

\* round(nfiles / sky_group_size), halves upward
QuotientRounded(n, g) == (2 * n + g) \div (2 * g)

\* line 78: int(nfiles / sky_group_size); int() drops the fraction of the
\* true quotient, which is not negative here
Quotient(n, g) == n \div g

\* line 79: ngroups * sky_group_size > nfiles
Overshoots(q, n, g) == q * g > n

\* int(nfiles / sky_group_size), then the adjustment of lines 79-80
GroupCount(n, g) ==
    LET q == Quotient(n, g)
    IN  IF Overshoots(q, n, g) THEN q - 1 ELSE q

\* lines 78-82: the number of groups; a group size of 0 raises
\* ZeroDivisionError
CountGroups ==
    /\ pc = "named"
    /\ IF sky_group_size[1] = 0
       THEN Raise("ZeroDivisionError") /\ ngroups' = ngroups
       ELSE /\ ngroups' = GroupCount(nfiles, sky_group_size[1])
            /\ pc' = "grouping"
            /\ error' = error
    /\ median_array' = <<>>
    /\ file_counter' = 0
    /\ i' = 0
    /\ UNCHANGED <<inputs, image_fnames, nfiles, sky_group_size, header, save_name,
                   images, sky, groups, loaded, sky_in, sky_repaired, repairs,
                   written>>
    /\ log' = Append(log, "count")
    /\ side_files' = side_files
    /\ UNCHANGED <<parvars, clipvars, cntvars, mmvars>>

\* image_fnames[file_counter:file_counter+sky_group_size]
GroupFiles(names, counter, size) ==
    SubSeq(names, counter + 1, Min(counter + size, Len(names)))

\* lines 87-90: clip and normalise every image, then the per-pixel median
CombineImages(raw, sg) ==
    [k \in 1..Len(raw) |-> Normalize(sigma_clipped(raw[k], sg, Whole(0)))]

\* lines 83-91: one iteration of the loop over the groups
CombineGroup ==
    /\ pc = "grouping"
    /\ i < ngroups
    /\ LET group_files == GroupFiles(image_fnames, file_counter, sky_group_size[1])
       IN  /\ \E raw \in [1..Len(group_files) -> Pool(store)] :
                /\ images' = CombineImages(raw, sigma)
                /\ median_array' = Append(median_array, NanMedianAxis0(images'))
           /\ groups' = Append(groups, group_files)
           /\ loaded' = loaded \o group_files
    /\ file_counter' = file_counter + sky_group_size[1]
    /\ i' = i + 1
    /\ UNCHANGED <<pc, inputs, image_fnames, nfiles, sky_group_size, header,
                   save_name, ngroups, sky, sky_in, sky_repaired, repairs, written,
                   error>>
    /\ log' = Append(log, "group")
    /\ side_files' = side_files
    /\ UNCHANGED <<parvars, clipvars, cntvars, mmvars>>

\* line 86: fits.getdata raises on a file it cannot read, after the files
\* before it in the group were read
LoadFails ==
    /\ pc = "grouping"
    /\ i < ngroups
    /\ LET group_files == GroupFiles(image_fnames, file_counter, sky_group_size[1])
       IN  \E k \in 1..Len(group_files) :
              loaded' = loaded \o SubSeq(group_files, 1, k)
    /\ Raise("OSError")
    /\ log' = Append(log, "group")
    /\ UNCHANGED <<inputs, image_fnames, nfiles, sky_group_size, header, save_name,
                   ngroups, median_array, file_counter, i, images, sky, groups,
                   sky_in, sky_repaired, repairs, written, side_files>>
    /\ UNCHANGED <<parvars, clipvars, cntvars, mmvars>>

\* line 92: the median over the groups.  Over an empty median_array
\* np.nanmedian returns a scalar NaN, which has no shape: <<>> here
Aggregate ==
    /\ pc = "grouping"
    /\ i >= ngroups
    /\ sky' = IF median_array = <<>> THEN <<>> ELSE NanMedianAxis0(median_array)
    /\ sky_in' = sky'
    /\ pc' = "aggregated"
    /\ UNCHANGED <<inputs, image_fnames, nfiles, sky_group_size, header, save_name,
                   ngroups, median_array, file_counter, i, images, groups, loaded,
                   sky_repaired, repairs, written, error>>
    /\ log' = Append(log, "aggregate")
    /\ side_files' = side_files
    /\ UNCHANGED <<parvars, clipvars, cntvars, mmvars>>

\* nan_percent > nan_thresh
AboveThresholdStrict(img, thresh) == RLess(Whole(thresh), NanPercent(img))

\* nan_percent >= nan_thresh
AboveThreshold(img, thresh) == RLeq(Whole(thresh), NanPercent(img))

\* whether the entry point calls its repair strategy on this sky
RepairRuns(e, img, thresh) ==
    e = "gen_mean_flat_sky_image" \/ AboveThreshold(img, thresh)

\* the repair strategy of each entry point
Strategy(e) == IF e = "gen_sky_image" THEN "median_filter_masking"
               ELSE "mean_filter_masking"

\* line 48: mean_filter_masking saves its seeded copy with plt.imsave
SideFiles(e) == IF Strategy(e) = "mean_filter_masking" THEN <<"filter_img.png">>
                ELSE <<>>

\* the images the entry point's repair strategy may return
Repaired(e, img) == IF e = "gen_sky_image" THEN median_filter_masking(img)
                    ELSE {mean_filter_masking(img)}

\* lines 93-95, 134-136, 174: the gap-filling strategy; sky.shape[0] of
\* a scalar raises IndexError
Repair ==
    /\ pc = "aggregated"
    /\ IF sky = <<>>
       THEN Raise("IndexError") /\ UNCHANGED <<sky, repairs, sky_repaired, side_files>>
       ELSE /\ IF RepairRuns(entry, sky, nan_thresh)
               THEN /\ sky' \in Repaired(entry, sky)
                    /\ repairs' = Append(repairs, Strategy(entry))
                    /\ side_files' = side_files \o SideFiles(entry)
               ELSE UNCHANGED <<sky, repairs, side_files>>
            /\ sky_repaired' = sky'
            /\ pc' = "repaired"
            /\ error' = error
    /\ UNCHANGED <<inputs, image_fnames, nfiles, sky_group_size, header, save_name,
                   ngroups, median_array, file_counter, i, images, groups, loaded,
                   sky_in, written>>
    /\ log' = Append(log, "repair")
    /\ UNCHANGED <<parvars, clipvars, cntvars, mmvars>>

\* lines 96-98, 137-139: the final cleanup (gen_mean_flat_sky_image has none)
Cleanup ==
    /\ pc = "repaired"
    /\ entry # "gen_mean_flat_sky_image"
    /\ sky' = FinalCleanup(sky)
    /\ pc' = "cleaned"
    /\ UNCHANGED <<inputs, image_fnames, nfiles, sky_group_size, header, save_name,
                   ngroups, median_array, file_counter, i, images, groups, loaded,
                   sky_in, sky_repaired, repairs, written, error>>
    /\ log' = Append(log, "cleanup")
    /\ side_files' = side_files
    /\ UNCHANGED <<parvars, clipvars, cntvars, mmvars>>

\* writeto placed next to the repair strategy, ahead of the cleanup
WriteReadyEarly(e, at) == at \in {"repaired", "cleaned"}

\* the position of writeto: after the cleanup of lines 96-98, or after the
\* repair strategy in gen_mean_flat_sky_image, which has no cleanup
WriteReady(e, at) ==
    \/ at = "cleaned"
    \/ at = "repaired" /\ e = "gen_mean_flat_sky_image"

\* lines 99, 140, 175: writeto(output_directory + save_name, overwrite=True)
Write ==
    /\ WriteReady(entry, pc)
    /\ written' = Append(written, [path |-> OutputDir \o save_name,
                                   header |-> header, data |-> sky])
    /\ pc' = "done"
    /\ UNCHANGED <<inputs, image_fnames, nfiles, sky_group_size, header, save_name,
                   ngroups, median_array, file_counter, i, images, sky, groups,
                   loaded, sky_in, sky_repaired, repairs, error>>
    /\ log' = Append(log, "write")
    /\ side_files' = side_files
    /\ UNCHANGED <<parvars, clipvars, cntvars, mmvars>>

\* lines 99, 140, 175: writeto raises when the file cannot be created
WriteFails ==
    /\ WriteReady(entry, pc)
    /\ Raise("OSError")
    /\ log' = Append(log, "write")
    /\ UNCHANGED <<inputs, image_fnames, nfiles, sky_group_size, header, save_name,
                   ngroups, median_array, file_counter, i, images, sky, groups,
                   loaded, sky_in, sky_repaired, repairs, written, side_files>>
    /\ UNCHANGED <<parvars, clipvars, cntvars, mmvars>>

\* ------------------------------------------- the group count alone
CountStart ==
    /\ kpc = "call"
    /\ k_nfiles \in 0..MaxFiles
    /\ k_size \in 1..MaxGroupSize
    /\ k_ngroups = 0
    /\ k_adjusted = FALSE

\* lines 78-80: the group count of nfiles files in groups of sky_group_size
CountCall ==
    /\ kpc = "call"
    /\ k_adjusted' = Overshoots(Quotient(k_nfiles, k_size), k_nfiles, k_size)
    /\ k_ngroups' = GroupCount(k_nfiles, k_size)
    /\ kpc' = "returned"
    /\ UNCHANGED <<k_nfiles, k_size>>
    /\ UNCHANGED <<skyvars, parvars, clipvars, mmvars>>

\* ---------------------------------------------- sigma_clipped alone
Samples == {NaN} \cup {Whole(v) : v \in 1..(MaxVal + 1)}

\* images that are flat except at up to two positions
ClipImages ==
    {[x \in Pix |-> IF x = p THEN v ELSE IF x = q THEN w ELSE Whole(b)] :
        b \in 1..MaxVal, p \in Pix, q \in Pix, v \in Samples, w \in Samples}

ClipStart ==
    /\ cpc = "call"
    /\ c_image \in ClipImages
    /\ c_sigma \in {<<>>, <<1>>, <<2>>}
    /\ c_sky \in {Whole(0), Whole(1)}
    /\ c_out = <<>>

\* lines 26-31: one call of sigma_clipped
ClipCall ==
    /\ cpc = "call"
    /\ c_out' = sigma_clipped(c_image, c_sigma, c_sky)
    /\ cpc' = "returned"
    /\ UNCHANGED <<c_image, c_sigma, c_sky>>
    /\ UNCHANGED <<skyvars, parvars, cntvars, mmvars>>

\* ------------------------------------------- per-chip process fan-out
ParFunctions == {"refineprocessparallel", "checkprocessparallel"}

RECURSIVE SeqsUpTo(_, _)
SeqsUpTo(S, n) ==
    IF n = 0 THEN {<<>>}
    ELSE LET shorter == SeqsUpTo(S, n - 1)
         IN  shorter \cup {Append(t, x) : t \in {u \in shorter : Len(u) = n - 1}, x \in S}

ParStart ==
    /\ ppc = "build"
    /\ which \in ParFunctions
    /\ chips \in SeqsUpTo(1..4, MaxChips)
    /\ commands = <<>> /\ procs = <<>> /\ waited = 0

\* lines 70-71, 94-95: the master.py command line of one chip
Command(fn, chip) ==
    [script |-> "./master.py", refine |-> (fn = "refineprocessparallel"), chip |-> chip]

\* lines 68-73, 92-97: one command per chip of the list
BuildCommands ==
    /\ ppc = "build"
    /\ commands' = [k \in 1..Len(chips) |-> Command(which, chips[k])]
    /\ ppc' = "spawn"
    /\ UNCHANGED <<which, chips, procs, waited>>
    /\ UNCHANGED <<skyvars, clipvars, cntvars, mmvars>>

\* lines 74, 98: the list comprehension starts the next child with Popen
Spawn ==
    /\ ppc = "spawn"
    /\ Len(procs) < Len(commands)
    /\ procs' = Append(procs, [cmd |-> commands[Len(procs) + 1], state |-> "running"])
    /\ UNCHANGED <<ppc, which, chips, commands, waited>>
    /\ UNCHANGED <<skyvars, clipvars, cntvars, mmvars>>

\* lines 74-75, 98-99: the list is complete, the loop over procs begins
SpawnDone ==
    /\ ppc = "spawn"
    /\ Len(procs) = Len(commands)
    /\ ppc' = "wait"
    /\ UNCHANGED <<which, chips, commands, procs, waited>>
    /\ UNCHANGED <<skyvars, clipvars, cntvars, mmvars>>

\* p.poll() in place of p.wait(): returns at once
WaitReturnsAlways(p) == TRUE

\* p.wait() returns once the child has exited
WaitReturns(p) == p.state = "exited"

\* lines 75-76, 99-100: wait for the next child of the list
Wait ==
    /\ ppc = "wait"
    /\ waited < Len(procs)
    /\ WaitReturns(procs[waited + 1])
    /\ waited' = waited + 1
    /\ UNCHANGED <<ppc, which, chips, commands, procs>>
    /\ UNCHANGED <<skyvars, clipvars, cntvars, mmvars>>

\* lines 76, 100: the loop is over, the function returns
Return ==
    /\ ppc = "wait"
    /\ waited = Len(procs)
    /\ ppc' = "returned"
    /\ UNCHANGED <<which, chips, commands, procs, waited>>
    /\ UNCHANGED <<skyvars, clipvars, cntvars, mmvars>>

\* a running child exits, at a time of its own choosing
ChildExit ==
    /\ \E k \in 1..Len(procs) :
          /\ procs[k].state = "running"
          /\ procs' = [procs EXCEPT ![k].state = "exited"]
    /\ UNCHANGED <<ppc, which, chips, commands, waited>>
    /\ UNCHANGED <<skyvars, clipvars, cntvars, mmvars>>

\* ------------------------------------------------------- multi_master
\* line 114: the chips of a whole observation
AllChips == <<1, 2, 3, 4>>

ChipNumbers == {AllChips[k] : k \in 1..Len(AllChips)}

\* a chip directory parentdir/C<n>/: absent, without entries, or with data
DirStates == {"missing", "empty", "data"}

\* -chip is an optional int: None, or a number (0 counts as not given)
ChipArgs == {<<>>} \cup {<<c>> : c \in 0..Len(AllChips)}

\* `if chip` / `if not chip`
ChipGiven(chip) == chip # <<>> /\ chip[1] # 0

MMStart ==
    /\ mpc = "start"
    /\ m_chip \in ChipArgs
    /\ m_no_download \in BOOLEAN
    /\ m_astromnet \in BOOLEAN
    /\ m_no_shift \in BOOLEAN
    /\ m_dirs \in [ChipNumbers -> DirStates]
    /\ m_chips = <<>> /\ m_next = 1 /\ m_download = "" /\ m_calls = <<>>
    /\ m_error = ""

mm_inputs == <<m_chip, m_no_download, m_astromnet, m_no_shift>>

\* lines 113-116: the list of chips to process
ChooseChips ==
    /\ mpc = "start"
    /\ m_chips' = IF ChipGiven(m_chip) THEN <<m_chip[1]>> ELSE AllChips
    /\ mpc' = "download"
    /\ UNCHANGED <<mm_inputs, m_dirs, m_next, m_download, m_calls, m_error>>
    /\ UNCHANGED <<skyvars, parvars, clipvars, cntvars>>

\* what a download, complete or cut short by an exception, may leave of
\* the directory of a requested chip
AfterDownload(before) ==
    IF before = "missing" THEN DirStates
    ELSE IF before = "empty" THEN {"empty", "data"}
    ELSE {"data"}

\* lines 118-122 and datadownload (13-30): unless no_download is set,
\* download the chips of the list; an exception of download_data is caught
\* and reported with print only
Download ==
    /\ mpc = "download"
    /\ IF m_no_download
       THEN UNCHANGED <<m_dirs, m_download>>
       ELSE /\ m_download' \in {"done", "Error downloading data!"}
            /\ m_dirs' \in {d \in [ChipNumbers -> DirStates] :
                    \A c \in ChipNumbers :
                        IF \E k \in 1..Len(m_chips) : m_chips[k] = c
                        THEN d[c] \in AfterDownload(m_dirs[c])
                        ELSE d[c] = m_dirs[c]}
    /\ mpc' = "check"
    /\ UNCHANGED <<mm_inputs, m_chips, m_next, m_calls, m_error>>
    /\ UNCHANGED <<skyvars, parvars, clipvars, cntvars>>

\* lines 124-127: the one directory whose listing is examined
CheckedChip(chip) == IF ChipGiven(chip) THEN chip[1] ELSE 1

\* lines 129-131: os.listdir(chip_path) raises when the directory is
\* absent; an empty listing ends the run with a message
CheckDir ==
    /\ mpc = "check"
    /\ LET state == m_dirs[CheckedChip(m_chip)]
       IN  IF state = "missing"
           THEN mpc' = "error" /\ m_error' = "FileNotFoundError"
           ELSE /\ mpc' = IF state = "empty" THEN "returned" ELSE "loop"
                /\ m_error' = m_error
    /\ UNCHANGED <<mm_inputs, m_dirs, m_chips, m_next, m_download, m_calls>>
    /\ UNCHANGED <<skyvars, parvars, clipvars, cntvars>>

\* lines 139-144: the function called for a chip
ProcessFor(astromnet, no_shift) ==
    IF astromnet THEN "refineprocess"
    ELSE IF ~no_shift THEN "shiftprocess"
    ELSE "baseprocess"

\* lines 36-41, 46-51, 56-61: the sigma handed to master
ChipSigma(chip) ==
    IF chip = 1 \/ chip = 2 THEN <<4>>
    ELSE IF chip = 3 \/ chip = 4 THEN <<6>>
    ELSE <<>>

\* the call of refineprocess / shiftprocess / baseprocess for chip f
ProcessCall(f) ==
    [fn |-> ProcessFor(m_astromnet, m_no_shift), chip |-> f, sigma |-> ChipSigma(f)]

\* lines 138-144: the next chip of the list is processed and master returns
Process ==
    /\ mpc = "loop"
    /\ m_next <= Len(m_chips)
    /\ m_calls' = Append(m_calls, ProcessCall(m_chips[m_next]))
    /\ m_next' = m_next + 1
    /\ UNCHANGED <<mpc, mm_inputs, m_dirs, m_chips, m_download, m_error>>
    /\ UNCHANGED <<skyvars, parvars, clipvars, cntvars>>

\* lines 138-144: the next chip of the list is processed and master raises,
\* which ends multi_master
ProcessRaises ==
    /\ mpc = "loop"
    /\ m_next <= Len(m_chips)
    /\ m_calls' = Append(m_calls, ProcessCall(m_chips[m_next]))
    /\ mpc' = "error"
    /\ m_error' = "master"
    /\ UNCHANGED <<mm_inputs, m_dirs, m_chips, m_next, m_download>>
    /\ UNCHANGED <<skyvars, parvars, clipvars, cntvars>>

\* line 138: the list is exhausted
LoopEnd ==
    /\ mpc = "loop"
    /\ m_next > Len(m_chips)
    /\ mpc' = "returned"
    /\ UNCHANGED <<mm_inputs, m_dirs, m_chips, m_next, m_download, m_calls, m_error>>
    /\ UNCHANGED <<skyvars, parvars, clipvars, cntvars>>

\* ------------------------------------------------------ specifications
\* directory entries: registered frames, one flat-fielded frame, one raw frame
DirUniverse ==
    {FileName(n, "1", RampNew) : n \in 1..MaxSeq}
        \cup {FileName(1, "1", FlatFits), FileName(2, "1", RawFits)}

\* every order in which os.listdir may return every set of entries
Listings ==
    UNION {{l \in [1..k -> DirUniverse] : \A a, b \in 1..k : a # b => l[a] # l[b]} :
              k \in 0..Cardinality(DirUniverse)}

\* the first n registered frames, in order
SortedListing(n) == [k \in 1..n |-> FileName(k, "1", RampNew)]

GroupSizeArgs(n) == {<<>>} \cup {<<g>> : g \in 0..(n + 1)}

NanThreshs == {DefaultFlatNanThresh, DefaultNanThresh, 60}

\* the sky entry points over stored images with missing samples
Init ==
    /\ SkyStart("catalog", {SortedListing(n) : n \in 0..MaxSkyFiles},
                GroupSizeArgs(MaxSkyFiles), {<<>>, <<2>>}, NanThreshs)
    /\ ParIdle
    /\ ClipIdle
    /\ CntIdle
    /\ MMIdle

Next ==
    \/ SelectFiles
    \/ ReadHeader
    \/ CountGroups
    \/ CombineGroup
    \/ LoadFails
    \/ Aggregate
    \/ Repair
    \/ Cleanup
    \/ Write
    \/ WriteFails

Spec == Init /\ [][Next]_vars

\* the sky entry points over every directory listing
InitFiles ==
    /\ SkyStart("single", Listings, GroupSizeArgs(MaxSeq + 1), {<<>>}, {DefaultNanThresh})
    /\ ParIdle
    /\ ClipIdle
    /\ CntIdle
    /\ MMIdle

SpecFiles == InitFiles /\ [][Next]_vars

\* sigma_clipped on its own
InitClip == SkyIdle /\ ParIdle /\ ClipStart /\ CntIdle /\ MMIdle

NextClip == ClipCall

SpecClip == InitClip /\ [][NextClip]_vars

\* the group count on its own
InitCount == SkyIdle /\ ParIdle /\ ClipIdle /\ CountStart /\ MMIdle

NextCount == CountCall

SpecCount == InitCount /\ [][NextCount]_vars

\* refineprocessparallel / checkprocessparallel
InitPar == SkyIdle /\ ParStart /\ ClipIdle /\ CntIdle /\ MMIdle

NextPar ==
    \/ BuildCommands
    \/ Spawn
    \/ SpawnDone
    \/ Wait
    \/ Return
    \/ ChildExit

SpecPar == InitPar /\ [][NextPar]_vars

\* multi_master
InitMM == SkyIdle /\ ParIdle /\ ClipIdle /\ CntIdle /\ MMStart

NextMM ==
    \/ ChooseChips
    \/ Download
    \/ CheckDir
    \/ Process
    \/ ProcessRaises
    \/ LoopEnd

SpecMM == InitMM /\ [][NextMM]_vars

\* ------------------------------------------------------------ claims
AfterLoop == pc \in {"aggregated", "repaired", "cleaned", "done"}
AfterRepair == pc \in {"repaired", "cleaned", "done"}
AfterCleanup == pc \in {"cleaned", "done"}

RECURSIVE Concat(_)
Concat(ss) == IF ss = <<>> THEN <<>> ELSE Head(ss) \o Concat(Tail(ss))

CeilDiv(n, g) == (n + g - 1) \div g

HasNaN(img) == \E p \in Pix : IsNaN(img[p])
HasValid(img) == \E p \in Pix : ~IsNaN(img[p])

\* C1: for n >= 1 files and a group size g >= 1, once the loop over the
\* groups has ended the groups are ceil(n/g) consecutive slices of the sorted
\* list whose concatenation is the whole list, and every group but the last
\* has exactly g members.
C1_GroupsPartitionInput ==
    (AfterLoop /\ nfiles >= 1 /\ sky_group_size[1] >= 1) =>
        /\ Len(groups) = CeilDiv(nfiles, sky_group_size[1])
        /\ Concat(groups) = image_fnames
        /\ \A k \in 1..(Len(groups) - 1) : Len(groups[k]) = sky_group_size[1]

\* C2: if the aggregated sky has at least one valid sample, the matrix handed
\* to writeto has no missing sample, in every entry point, for every
\* nan_thresh and whether or not the repair strategy ran.
C2_WrittenSkyHasNoNaN ==
    (pc = "done" /\ HasValid(sky_in)) =>
        /\ Len(written) = 1
        /\ ~HasNaN(written[1].data)

\* C2 witness: a sky with missing and valid samples was written although no
\* repair strategy ran.
C2_Witness ==
    /\ pc = "done"
    /\ repairs = <<>>
    /\ HasNaN(sky_in) /\ HasValid(sky_in)
    /\ ~HasNaN(written[1].data)

\* C3: the repair strategy (median_filter_masking or mean_filter_masking)
\* and the final cleanup leave every sample that was valid on entry as it
\* was, so no valid sample becomes missing and the number of missing samples
\* does not grow.
C3_StagesWriteOnlyMissing ==
    /\ AfterRepair =>
          /\ \A p \in Pix : ~IsNaN(sky_in[p]) => sky_repaired[p] = sky_in[p]
          /\ CountNaN(sky_repaired) <= CountNaN(sky_in)
    /\ AfterCleanup =>
          /\ \A p \in Pix : ~IsNaN(sky_repaired[p]) => sky[p] = sky_repaired[p]
          /\ CountNaN(sky) <= CountNaN(sky_repaired)

\* C3 witness: the local-median repair filled some missing samples and left
\* others, which the final cleanup then filled, beside valid samples.
C3_Witness ==
    /\ pc = "cleaned"
    /\ repairs = <<"median_filter_masking">>
    /\ HasValid(sky_in)
    /\ 0 < CountNaN(sky_repaired)
    /\ CountNaN(sky_repaired) < CountNaN(sky_in)
    /\ CountNaN(sky) = 0

\* C4: in gen_sky_image and gen_flat_sky_image the repair strategy runs if
\* and only if 100 * missingCount / totalSamples >= nan_thresh, and then
\* exactly one strategy runs exactly once: the local median in
\* gen_sky_image, the local mean in gen_flat_sky_image.
C4_RepairIffAboveThreshold ==
    (AfterRepair /\ entry # "gen_mean_flat_sky_image") =>
        IF 100 * CountNaN(sky_in) >= nan_thresh * NPix
        THEN repairs = IF entry = "gen_sky_image" THEN <<"median_filter_masking">>
                       ELSE <<"mean_filter_masking">>
        ELSE repairs = <<>>

\* C4 witness: with nan_thresh = 0 and no missing sample the threshold is
\* met with equality and the local mean ran once.
C4_Witness ==
    /\ pc = "done"
    /\ entry = "gen_flat_sky_image"
    /\ nan_thresh = 0
    /\ CountNaN(sky_in) = 0
    /\ repairs = <<"mean_filter_masking">>

\* C5: when sky_group_size is None or equals the number n >= 1 of files,
\* one group holding all n files is formed and the aggregate equals that
\* group's combined matrix at every position, missing positions included.
C5_SingleGroupIdentity ==
    (AfterLoop /\ nfiles >= 1
        /\ (arg_group_size = <<>> \/ arg_group_size = <<nfiles>>)) =>
        /\ Len(groups) = 1
        /\ groups[1] = image_fnames
        /\ Len(median_array) = 1
        /\ sky_in = median_array[1]

\* C5 witness: two files in one default group whose combined matrix has a
\* missing and a valid sample.
C5_Witness ==
    /\ pc = "aggregated"
    /\ arg_group_size = <<>>
    /\ nfiles = 2
    /\ HasNaN(sky_in) /\ HasValid(sky_in)
    /\ sky_in = median_array[1]

\* C6: with sigma = None sigma_clipped returns its input with every sample
\* unchanged, for every image and sky reference; with sigma set, a sample
\* of the result is either the input's sample or the missing sentinel.
C6_ClipOnlyMasks ==
    cpc = "returned" =>
        /\ c_sigma = <<>> => c_out = c_image
        /\ \A p \in Pix : c_out[p] = c_image[p] \/ IsNaN(c_out[p])

\* C6 witness: with sigma set and a nonzero sky reference a valid sample
\* was rejected and another one retained.
C6_Witness ==
    /\ cpc = "returned"
    /\ c_sigma # <<>>
    /\ c_sky # Whole(0)
    /\ \E p \in Pix : ~IsNaN(c_image[p]) /\ IsNaN(c_out[p])
    /\ \E p \in Pix : ~IsNaN(c_out[p])

\* C7: a position of a group's combined matrix is missing if and only if it
\* is missing in every normalised image of the group, and a position of the
\* aggregate is missing only if it is missing in every group's combined
\* matrix.
C7_MissingIffMissingEverywhere ==
    /\ (pc = "grouping" /\ i > 0) =>
          \A p \in Pix :
              IsNaN(median_array[i][p]) <=> \A k \in 1..Len(images) : IsNaN(images[k][p])
    /\ (AfterLoop /\ median_array # <<>>) =>
          \A p \in Pix :
              IsNaN(sky_in[p]) => \A g \in 1..Len(median_array) : IsNaN(median_array[g][p])

\* C7 witness: a group of two images, one with a fully missing first row and
\* one without missing samples, whose combined matrix has no missing sample.
C7_Witness ==
    /\ pc = "grouping" /\ i = 1
    /\ Len(images) = 2
    /\ \E k \in 1..2 : \A p \in Pix : IsNaN(images[k][p]) <=> Row(p) = 1
    /\ \E k \in 1..2 : ~HasNaN(images[k])
    /\ ~HasNaN(median_array[1])

\* no directory entry ends in '.ramp.new' or '.flat.fits'
NoMatchingFile ==
    \A k \in 1..Len(listing) :
        ~EndsWith(listing[k], RampNew) /\ ~EndsWith(listing[k], FlatFits)

\* C8: when no directory entry ends in '.ramp.new' or '.flat.fits', the entry
\* point never gets past the header read, where it ends in an error: no
\* image is loaded, nothing is combined and no file is written.
C8_EmptyInputFails ==
    NoMatchingFile =>
        /\ pc \in {"start", "selected", "error"}
        /\ pc = "error" => error = "IndexError"
        /\ loaded = <<>> /\ median_array = <<>> /\ written = <<>>

\* C8 witness: a directory that holds entries, none of them matching, ended
\* in the error.
C8_Witness ==
    /\ NoMatchingFile
    /\ listing # <<>>
    /\ pc = "error"
    /\ loaded = <<>> /\ written = <<>>

\* the matching paths of the directory, as a set
MatchingSet ==
    {PathJoin(SourceDir, listing[k]) :
        k \in {k \in 1..Len(listing) : \/ EndsWith(listing[k], RampNew)
                                       \/ EndsWith(listing[k], FlatFits)}}
LeastPath == CHOOSE x \in MatchingSet : \A y \in MatchingSet : StrLeq(x, y)
GreatestPath == CHOOSE x \in MatchingSet : \A y \in MatchingSet : StrLeq(y, x)

\* C9: the header is read from the greatest matching path and the output
\* name is built from the least and the greatest matching paths, both
\* determined by the set of matching files alone, whatever the order of the
\* directory listing.
C9_NamingIgnoresListingOrder ==
    pc \in {"named", "grouping", "aggregated", "repaired", "cleaned", "done"} =>
        /\ header.src = GreatestPath
        /\ save_name = FormatSaveName(
               HeaderGet(header.FILTER1), HeaderGet(header.FILTER2),
               PySlice(LeastPath, SeqFrom(entry), SeqTo(entry)),
               PySlice(GreatestPath, SeqFrom(entry), SeqTo(entry)),
               PyIndex(LeastPath, ChipAt(entry)))

\* C9 witness: the listing returned three matching files with the greatest
\* first and the least last, and the output was named.
C9_Witness ==
    /\ pc = "named"
    /\ nfiles = 3
    /\ PathJoin(SourceDir, listing[1]) = GreatestPath
    /\ PathJoin(SourceDir, listing[Len(listing)]) = LeastPath
    /\ header.src = GreatestPath

\* C10: the parallel functions start one child per chip of the list, all
\* of them before waiting on any, and return only after every child has
\* exited, whatever the order of the children's exits.
C10_StartAllThenWaitAll ==
    /\ ppc \in {"build", "spawn"} => waited = 0
    /\ ppc \in {"wait", "returned"} =>
          /\ Len(procs) = Len(chips)
          /\ \A k \in 1..Len(chips) :
                /\ procs[k].cmd.chip = chips[k]
                /\ procs[k].cmd.refine = (which = "refineprocessparallel")
    /\ ppc = "returned" =>
          /\ waited = Len(chips)
          /\ \A k \in 1..Len(procs) : procs[k].state = "exited"

\* C10 witness: three children were running at once before the first wait
\* had returned.
C10_Witness ==
    /\ ppc = "wait"
    /\ waited = 0
    /\ Len(procs) = 3
    /\ \A k \in 1..3 : procs[k].state = "running"

\* C11: for every file count n >= 0 and group size g >= 1 the group count is
\* floor(n/g), the one q with q*g <= n < (q+1)*g, and the adjustment branch
\* of lines 79-80 is not taken.
C11_FloorWithoutAdjustment ==
    kpc = "returned" =>
        /\ k_ngroups * k_size <= k_nfiles
        /\ k_nfiles < (k_ngroups + 1) * k_size
        /\ ~k_adjusted

\* C11 witness: a count of several groups with files left over.
C11_Witness ==
    /\ kpc = "returned"
    /\ k_ngroups >= 2
    /\ k_ngroups * k_size < k_nfiles

IsPrefix(a, b) == Len(a) <= Len(b) /\ a = SubSeq(b, 1, Len(a))

\* the stages of gen_sky_image / gen_flat_sky_image over ng groups
StageOrder(ng) ==
    <<"select", "header", "count">> \o [k \in 1..ng |-> "group"]
        \o <<"aggregate", "repair", "cleanup", "write">>

Within(image, members) ==
    [q \in Pix |-> IF q \in members THEN image[q] ELSE Whole(0)]

\* the mean of image over the positions of the matrix under the disk
DiskMeanAt(image, p, size) ==
    LET members == {q \in Pix : InDisk(p, q, size)}
    IN  RDiv(RSum(Within(image, members)), Whole(Cardinality(members)))

\* the number of offsets under disk(MeanFilterSize)
MeanDiskArea ==
    Cardinality({o \in ((0 - MeanFilterSize)..MeanFilterSize)
                          \X ((0 - MeanFilterSize)..MeanFilterSize) :
                    o[1] * o[1] + o[2] * o[2] <= MeanFilterSize * MeanFilterSize})

\* the same mean with the positions outside the matrix counted as zero
DiskMeanPaddedAt(image, p) ==
    LET members == {q \in Pix : InDisk(p, q, MeanFilterSize)}
    IN  RDiv(RSum(Within(image, members)), Whole(MeanDiskArea))

MeanRepairRan ==
    /\ AfterRepair
    /\ entry # "gen_sky_image"
    /\ repairs # <<>>

\* C13 as stated: where mean_filter_masking ran, every originally missing
\* position holds the mean of the seeded matrix over the disk of radius
\* size around it (over the positions of the matrix, or with the outside
\* counted as zero).
C13_DiskMeanAtMissing ==
    MeanRepairRan =>
        \A p \in Pix : IsNaN(sky_in[p]) =>
            sky_repaired[p] \in {DiskMeanAt(SeededImage(sky_in), p, MeanFilterSize),
                                 DiskMeanPaddedAt(SeededImage(sky_in), p)}

\* C13 amended: where mean_filter_masking ran, every originally missing
\* position holds the sum of the seeded samples (valid samples as they are,
\* missing ones replaced by the nanmedian) inside the size-by-size square
\* window around it, the outside of the matrix counted as zero, divided by
\* size*size; valid positions are as they were.
C13_SquareMeanAtMissing ==
    MeanRepairRan =>
        LET median == NanMedian(sky_in)
            seeded == [q \in Pix |-> IF IsNaN(sky_in[q]) THEN median ELSE sky_in[q]]
            low == 0 - (MeanFilterSize \div 2)
            high == (MeanFilterSize - 1) \div 2
            square(p) == {q \in Pix : /\ Row(q) - Row(p) \in low..high
                                      /\ Col(q) - Col(p) \in low..high}
        IN  \A p \in Pix :
               IF IsNaN(sky_in[p])
               THEN RMul(sky_repaired[p], Whole(MeanFilterSize * MeanFilterSize))
                        = RSum(Within(seeded, square(p)))
               ELSE sky_repaired[p] = sky_in[p]

\* C13 witness: mean_filter_masking ran on a sky with missing and valid
\* samples.
C13_Witness ==
    /\ MeanRepairRan
    /\ HasNaN(sky_in) /\ HasValid(sky_in)
    /\ ~HasNaN(sky_repaired)

\* the part of a path after its last separator
Basename(path) ==
    LET seps == {k \in 1..Len(path) : path[k] = "/"}
        last == IF seps = {} THEN 0 ELSE CHOOSE k \in seps : \A j \in seps : j <= k
    IN  SubSeq(path, last + 1, Len(path))

\* <8-digit sequence>C<detector id><suffix>, with either accepted suffix
FollowsConvention(name) ==
    /\ \/ Len(name) = 10 + Len(RampNew) /\ EndsWith(name, RampNew)
       \/ Len(name) = 10 + Len(FlatFits) /\ EndsWith(name, FlatFits)
    /\ \A k \in 1..8 : \E d \in 1..10 : name[k] = Digits[d]
    /\ name[9] = "C"

\* C14: once the files are selected, for every selected file whose name
\* follows the convention the offsets of the running entry point yield the
\* first eight characters of the file name as its sequence id and the
\* character after the C as its detector id.
C14_OffsetsExtractIds ==
    pc \notin {"idle", "start"} =>
        \A k \in 1..Len(image_fnames) :
            LET path == image_fnames[k]
                name == Basename(path)
            IN  FollowsConvention(name) =>
                    /\ PySlice(path, SeqFrom(entry), SeqTo(entry)) = SubSeq(name, 1, 8)
                    /\ PyIndexOk(path, ChipAt(entry))
                    /\ PyIndex(path, ChipAt(entry)) = name[10]

\* C15: no call of refineprocess / shiftprocess / baseprocess is made for a
\* chip whose directory C<chip> is empty, whether one chip or all four are
\* processed and however the download ended; the calls made are one per
\* chip of the list, in the order of the list, each the function chosen by
\* astromnet first and no_shift second.
C15_NoEmptyChipProcessed ==
    /\ \A k \in 1..Len(m_calls) : m_dirs[m_calls[k].chip] # "empty"
    /\ Len(m_calls) <= Len(m_chips)
    /\ \A k \in 1..Len(m_calls) :
          /\ m_calls[k].chip = m_chips[k]
          /\ k > 1 => m_calls[k - 1].chip < m_calls[k].chip
          /\ m_calls[k].fn = (IF m_astromnet THEN "refineprocess"
                              ELSE IF m_no_shift THEN "baseprocess"
                              ELSE "shiftprocess")

====
